---- MODULE Spec2Model ----
(***************************************************************************)
(* Serial waveform viewer: the packet codec (parsePacket), the read loop   *)
(* of serialService (startReadLoop), App's lastPacket state and the        *)
(* WaveformChart channel windows.                                          *)
(*                                                                         *)
(* TLC's integers are 32-bit signed, so an unsigned 32-bit channel value   *)
(* v is held as two 16-bit limbs [hi, lo] with v = hi * 65536 + lo.        *)
(*                                                                         *)
(* Spec          one read loop feeding App and the chart                   *)
(* SpecChunking  two read loops over the same byte stream, cut into chunks *)
(*               independently                                             *)
(* SpecChart     App and the chart, onPacket called packet by packet       *)
(* SpecCodec     parsePacket called directly on buffers of any length      *)
(* SpecFair      Spec with the scheduling of a resolved read's continuation*)
(* SpecToggle    App and the chart of either implementation, with the      *)
(*               autoscale checkbox and the channel buttons                *)
(* SpecDomain    computeYDomain called on windows of any contents          *)
(* SpecEntry     startReadLoop called directly: port with or without a     *)
(*               readable stream, signal absent, fresh or already aborted, *)
(*               an onPacket that may raise the signal                     *)
(* SpecIsolation Spec with blocks on which the loop's try body throws      *)
(* SpecControl   SerialControl's Connect and Disconnect driving the loop   *)
(*                                                                         *)
(* A number of computeYDomain is held exactly, as [hi, lo, fr] with value  *)
(* hi * 65536 + lo + fr / 20: the factor 0.05 is taken as 1/20 and the     *)
(* rounding of IEEE doubles is not modelled.                               *)
(***************************************************************************)
EXTENDS Integers, Sequences, FiniteSets, TLC

\* ------------------------------------------------------------- constants
PACKET_SIZE == 16
CHANNEL_COUNT == 4
BYTES_PER_CHANNEL == 4
POINTS == 20

\* ---------------------------------------------------------------- bounds
\* Largest chunk one reader.read() delivers.
MaxChunk == 33
\* Most bytes the byte source produces in one run of the read loop.
MaxBytes == 50
\* Longest ArrayBuffer handed to parsePacket by a direct caller.
MaxBufLen == 18
\* Largest offset argument a direct caller passes to parsePacket.
MaxOffset == 2
\* Most packets App receives in the chart specification.
MaxPackets == 23
\* Most packets overwritten in lastPacket before a render, chart specification.
MaxDropped == 2
\* Longest window a direct caller passes to computeYDomain.
MaxWindow == 3
\* Most clicks on the autoscale checkbox and the channel buttons.
MaxToggles == 3
\* Most packets App receives in the toggle specification.
MaxTogglePackets == 3

VARIABLES
  pattern,      \* which byte stream the port produces
  pc,           \* read loop: "reading" (awaiting reader.read()) or "done"
  received,     \* every byte the reader has returned so far, in order
  split,        \* TRUE once a chunk has ended off a frame boundary
  buffer,       \* startReadLoop's carry-over buffer
  parsed,       \* every ArrayBuffer handed to parsePacket, in order
  delivered,    \* every PacketData passed to onPacket, in order
  errors,       \* every error passed to onError, in order
  exitBy,       \* how the loop left: "none" while it runs, else the path
  readError,    \* the error reader.read() rejected with, or "none"
  locked,       \* the reader holds the lock on port.readable
  releases,     \* calls of reader.releaseLock() so far
  promise,      \* startReadLoop's promise: "none", "pending", "resolved"
  listener,     \* onAbort is registered as the signal's 'abort' listener
  readable,     \* port.readable is there
  hasSignal,    \* a signal was passed to startReadLoop
  faulty,       \* the blocks on which the loop's try body throws
  connected,    \* SerialControl connected state
  currentPort,  \* currentPortRef.current is a port
  isDisconnecting, \* isDisconnectingRef.current
  controllerRef,   \* abortControllerRef.current is a controller
  loopPromiseRef,  \* readLoopPromiseRef.current is a promise
  portState,    \* the port: "closed", "opening", "opened", "closing"
  dpc,          \* handleDisconnect call -> where it is suspended
  loops,        \* calls of startReadLoop by handleConnect so far
  closeCalls,   \* calls of close(port) so far
  uiError,      \* SerialControl error state, "none" for null
  lastPacket,   \* App state: [id, data]; id 0 is null
  dropped,      \* packets replaced in lastPacket before any render saw them
  effectDep,    \* id of the packet the chart's packet effect last ran for
  buffers,      \* WaveformChart buffersRef: channel -> window
  dataVersion,  \* WaveformChart dataVersion state (Recharts chart only)
  pushed,       \* ids of the packets the packet effect has pushed, in order
  chartData,    \* channel -> the 20-point series the chart shows
  impl,         \* which WaveformChart is mounted: "recharts" or "uplot"
  autoScale,    \* WaveformChart autoScale state
  channelVisible, \* App channelVisible state: channel -> BOOLEAN
  toggles,      \* clicks on the checkbox and the channel buttons so far
  aborted,      \* signal.aborted
  cancelled,    \* reader.cancel() has been called
  receivedB,    \* second read loop on the same stream: bytes returned
  splitB,       \* second read loop: a chunk has ended off a frame boundary
  bufferB,      \* second read loop: carry-over buffer
  deliveredB,   \* second read loop: PacketData passed to onPacket
  cbuf,         \* codec caller: the ArrayBuffer
  coff,         \* codec caller: the offset argument
  cvals,        \* codec caller: channel -> value written there, or Unset
  cres,         \* codec caller: result of the last parsePacket call
  dwin,         \* computeYDomain caller: the window
  dauto,        \* computeYDomain caller: the autoScale argument
  dres          \* computeYDomain caller: the range returned, or NoDomain

vars == <<pattern, pc, received, split, buffer, parsed, delivered, errors,
          exitBy, readError, locked, releases, promise, listener,
          readable, hasSignal, faulty,
          connected, currentPort, isDisconnecting, controllerRef,
          loopPromiseRef, portState, dpc, loops, closeCalls, uiError,
          lastPacket, dropped, effectDep, buffers, dataVersion,
          pushed, chartData, impl, autoScale, channelVisible, toggles,
          aborted, cancelled,
          receivedB, splitB, bufferB, deliveredB, cbuf, coff, cvals, cres,
          dwin, dauto, dres>>

exitVars == <<exitBy, readError, locked, releases, promise, listener>>
loopVars == <<pc, received, split, buffer, parsed, delivered, errors,
              exitVars>>
envVars == <<pattern, readable, hasSignal, faulty>>
ctlVars == <<connected, currentPort, isDisconnecting, controllerRef,
             loopPromiseRef, portState, dpc, loops, closeCalls>>
appVars == <<lastPacket, dropped>>
chartVars == <<effectDep, buffers, dataVersion, pushed, chartData>>
widgetVars == <<impl, autoScale, channelVisible, toggles>>
cancelVars == <<aborted, cancelled>>
domainVars == <<dwin, dauto, dres>>
loopBVars == <<receivedB, splitB, bufferB, deliveredB>>
codecVars == <<cbuf, coff, cvals, cres>>

Channels == 0 .. (CHANNEL_COUNT - 1)

Min(a, b) == IF a < b THEN a ELSE b

\* ------------------------------------------------------------ byte source
\* Byte streams the port can produce: byte i (1-based) of stream <<m, c, f>>
\* is (m * i + c + f * k) mod 256, k the 0-based index of the 16-byte frame
\* the byte lies in.  <<0, 0, 0>> is all zeros, <<0, 255, 0>> all 0xFF; the
\* other two repeat no frame within 256 frames.
Patterns == { <<0, 0, 0>>, <<0, 255, 0>>, <<7, 1, 1>>, <<37, 200, 3>> }

StreamByte(p, i) == (p[1] * i + p[2] + p[3] * ((i - 1) \div 16)) % 256

StreamSlice(p, from, n) == [i \in 1 .. n |-> StreamByte(p, from + i)]

\* ------------------------------------------------------------------ codec
U32(hi, lo) == [hi |-> hi, lo |-> lo]

\* Faulty variant of getUint32: the littleEndian flag is ignored (big-endian read).
getUint32BigEndian(view, byteOffset, littleEndian) ==
  LET raw == [k \in 1 .. 4 |-> view[byteOffset + 5 - k]]
  IN  U32(raw[3] + 256 * raw[4], raw[1] + 256 * raw[2])

\* DataView.prototype.getUint32(byteOffset, littleEndian): the four bytes at
\* byteOffset, reversed unless littleEndian, are the base-256 digits of the
\* result, least significant first.
getUint32(view, byteOffset, littleEndian) ==
  LET raw == [k \in 1 .. 4 |-> view[byteOffset + k]]
      ordered == IF littleEndian THEN raw ELSE [k \in 1 .. 4 |-> raw[5 - k]]
  IN  U32(ordered[3] + 256 * ordered[4], ordered[1] + 256 * ordered[2])

NoData == [ch0 |-> U32(0, 0), ch1 |-> U32(0, 0),
           ch2 |-> U32(0, 0), ch3 |-> U32(0, 0)]

\* Faulty variant of parsePacket: no length check, bytes past the end read as 0.
parsePacketUnchecked(buf, offset) ==
  LET view == [k \in 1 .. PACKET_SIZE |->
                 IF offset + k <= Len(buf) THEN buf[offset + k] ELSE 0]
  IN  [status |-> "ok",
       data |-> [ch0 |-> getUint32(view, 0, TRUE),
                 ch1 |-> getUint32(view, BYTES_PER_CHANNEL, TRUE),
                 ch2 |-> getUint32(view, BYTES_PER_CHANNEL * 2, TRUE),
                 ch3 |-> getUint32(view, BYTES_PER_CHANNEL * 3, TRUE)]]

\* Faulty variant of parsePacket: ch2 is read from ch3's offset.
parsePacketWrongOffset(buf, offset) ==
  IF Len(buf) < offset + PACKET_SIZE
    THEN [status |-> "RangeError", data |-> NoData]
    ELSE LET view == SubSeq(buf, offset + 1, offset + PACKET_SIZE)
         IN  [status |-> "ok",
              data |-> [ch0 |-> getUint32(view, 0, TRUE),
                        ch1 |-> getUint32(view, BYTES_PER_CHANNEL, TRUE),
                        ch2 |-> getUint32(view, BYTES_PER_CHANNEL * 3, TRUE),
                        ch3 |-> getUint32(view, BYTES_PER_CHANNEL * 3, TRUE)]]

\* parsePacket(buffer, offset): throws RangeError on a short buffer, else
\* decodes the 16 bytes at offset.  A throw returns no data: the data field
\* of a RangeError result is the NoData placeholder and is never used.
parsePacket(buf, offset) ==
  IF Len(buf) < offset + PACKET_SIZE
    THEN [status |-> "RangeError", data |-> NoData]
    ELSE LET view == SubSeq(buf, offset + 1, offset + PACKET_SIZE)
         IN  [status |-> "ok",
              data |-> [ch0 |-> getUint32(view, 0, TRUE),
                        ch1 |-> getUint32(view, BYTES_PER_CHANNEL, TRUE),
                        ch2 |-> getUint32(view, BYTES_PER_CHANNEL * 2, TRUE),
                        ch3 |-> getUint32(view, BYTES_PER_CHANNEL * 3, TRUE)]]

\* Field ch<i> of a PacketData.
Ch(data, i) ==
  CASE i = 0 -> data.ch0
    [] i = 1 -> data.ch1
    [] i = 2 -> data.ch2
    [] OTHER -> data.ch3

\* -------------------------------------------------------------- read loop
\* Faulty variant of AppendChunk: the chunk replaces the carry-over instead of
\* being appended to it.
AppendChunkReplace(buf, chunk) == chunk

\* buffer.push(...value)
AppendChunk(buf, chunk) == buf \o chunk

\* Faulty variant of splice: one byte more than asked is removed from the buffer.
spliceDropsByte(buf, n) ==
  LET k == Min(n, Len(buf))
  IN  [removed |-> SubSeq(buf, 1, k), rest |-> SubSeq(buf, k + 2, Len(buf))]

\* Faulty variant of splice: the bytes are taken from the end of the buffer.
spliceFromEnd(buf, n) ==
  LET k == Min(n, Len(buf))
  IN  [removed |-> SubSeq(buf, Len(buf) - k + 1, Len(buf)),
       rest |-> SubSeq(buf, 1, Len(buf) - k)]

\* buffer.splice(0, n): removes the first n elements (fewer if the buffer is
\* shorter) and returns them.
splice(buf, n) ==
  LET k == Min(n, Len(buf))
  IN  [removed |-> SubSeq(buf, 1, k), rest |-> SubSeq(buf, k + 1, Len(buf))]

\* Faulty variant of ArrayBufferOf: the ArrayBuffer is allocated one byte short.
ArrayBufferShort(slice) ==
  [i \in 1 .. (PACKET_SIZE - 1) |-> IF i <= Len(slice) THEN slice[i] ELSE 0]

\* ab = new ArrayBuffer(PACKET_SIZE); new Uint8Array(ab).set(slice):
\* PACKET_SIZE zero bytes with slice copied to the front.
ArrayBufferOf(slice) ==
  [i \in 1 .. PACKET_SIZE |-> IF i <= Len(slice) THEN slice[i] ELSE 0]

\* What one pass over the buffer produced: the carry-over left, the blocks
\* handed to parsePacket, the onPacket arguments and the onError arguments.
NoOutput(buf) ==
  [buffer |-> buf, blocks |-> <<>>, packets |-> <<>>, errs |-> <<>>]

\* try { data = parsePacket(ab); onPacket(data) }: the result of parsePacket,
\* or an error thrown by either call.  The blocks on which one of them throws
\* an error of its own are those in faulty.
tryBlock(ab) ==
  IF ab \in faulty THEN [status |-> "DecodeError", data |-> NoData]
                   ELSE parsePacket(ab, 0)

\* Faulty variant of ExtractOne: an error thrown by the try body empties the
\* buffer, the rest of the chunk is dropped.
ExtractOneDropsRest(out) ==
  LET sp == splice(out.buffer, PACKET_SIZE)
      ab == ArrayBufferOf(sp.removed)
      r == tryBlock(ab)
  IN  [buffer |-> IF r.status = "ok" THEN sp.rest ELSE <<>>,
       blocks |-> Append(out.blocks, ab),
       packets |-> IF r.status = "ok"
                     THEN Append(out.packets, r.data) ELSE out.packets,
       errs |-> IF r.status = "ok"
                  THEN out.errs ELSE Append(out.errs, r.status)]

\* One iteration of the inner loop's body on the buffer out.buffer.
ExtractOne(out) ==
  LET sp == splice(out.buffer, PACKET_SIZE)
      ab == ArrayBufferOf(sp.removed)
      r == tryBlock(ab)
  IN  [buffer |-> sp.rest,
       blocks |-> Append(out.blocks, ab),
       packets |-> IF r.status = "ok"
                     THEN Append(out.packets, r.data) ELSE out.packets,
       errs |-> IF r.status = "ok"
                  THEN out.errs ELSE Append(out.errs, r.status)]

\* Faulty variant of DrainBuffer: 'if' in place of 'while', at most one frame is
\* extracted per chunk.
DrainBufferOnce(out) ==
  IF Len(out.buffer) >= PACKET_SIZE THEN ExtractOne(out) ELSE out

RECURSIVE DrainBuffer(_)
\* while (buffer.length >= PACKET_SIZE) { splice, parsePacket, onPacket }
DrainBuffer(out) ==
  IF Len(out.buffer) >= PACKET_SIZE THEN DrainBuffer(ExtractOne(out)) ELSE out

\* The synchronous handling of one chunk: if (value) { push; while ... }
ProcessChunk(buf, chunk) == DrainBuffer(NoOutput(AppendChunk(buf, chunk)))

\* -------------------------------------------------------------------- App
NoPacket == [id |-> 0, data |-> NoData]

\* A render is due: lastPacket changed since the packet effect last ran.
RenderPending(lp) == lp.id # effectDep

\* onPacket = setLastPacket, called once per element of packets, in order,
\* with no render in between.  Every call makes a new PacketData object; its
\* id is its position in the sequence of all onPacket calls.
RECURSIVE onPacketAll(_, _, _)
onPacketAll(app, packets, nextId) ==
  IF packets = <<>> THEN app
  ELSE onPacketAll(
         [lastPacket |-> [id |-> nextId, data |-> Head(packets)],
          dropped |-> app.dropped
                        + (IF RenderPending(app.lastPacket) THEN 1 ELSE 0)],
         Tail(packets), nextId + 1)

\* ---------------------------------------------------------- WaveformChart
\* Faulty variant of PushShift: pop() in place of shift(), the newest value goes.
PushPop(b, v) ==
  LET pushed1 == Append(b, v)
  IN  IF Len(pushed1) > POINTS THEN SubSeq(pushed1, 1, Len(pushed1) - 1)
                               ELSE pushed1

\* Faulty variant of PushShift: '>=' in place of '>', the window stops at
\* POINTS - 1 values.
PushShiftEarly(b, v) ==
  LET pushed1 == Append(b, v)
  IN  IF Len(pushed1) >= POINTS THEN Tail(pushed1) ELSE pushed1

\* b.push(v); if (b.length > POINTS) b.shift();
PushShift(b, v) ==
  LET pushed1 == Append(b, v)
  IN  IF Len(pushed1) > POINTS THEN Tail(pushed1) ELSE pushed1

\* Faulty variant of PacketEffect: the shift loop stops one channel early, the
\* last channel's window is never trimmed.
PacketEffectSkipsLast(bufs, data) ==
  [ch \in Channels |->
     IF ch < CHANNEL_COUNT - 1 THEN PushShift(bufs[ch], Ch(data, ch))
                               ELSE Append(bufs[ch], Ch(data, ch))]

\* The packet effect's buffer update for one packet.
PacketEffect(bufs, data) ==
  [ch \in Channels |-> PushShift(bufs[ch], Ch(data, ch))]

\* The value of an absent point (null) in a chart series.
Null == [hi |-> -1, lo |-> -1]

\* Faulty variant of buildChartData: the window's values are placed at the end
\* of the series, the nulls in front.
buildChartDataRightAligned(b) ==
  [i \in 1 .. POINTS |->
     [point |-> i - 1,
      value |-> IF i - 1 >= POINTS - Len(b)
                  THEN b[i - (POINTS - Len(b))] ELSE Null]]

\* buildChartData(buffer): POINTS entries, entry i (0-based) holding
\* buffer[i] if there is one and null otherwise.  The uPlot chart builds its
\* y array by the same loop.
buildChartData(b) ==
  [i \in 1 .. POINTS |->
     [point |-> i - 1,
      value |-> IF i - 1 < Len(b) THEN b[i] ELSE Null]]

\* The series of all four channels.
Snapshot(bufs) == [ch \in Channels |-> buildChartData(bufs[ch])]

\* ---------------------------------------------------------- computeYDomain
\* Numbers: [hi, lo, fr] is hi * 65536 + lo + fr / 20, with lo in 0 .. 65535
\* and fr in 0 .. 19; a negative number has hi < 0.
Norm(hi, lo, fr) ==
  LET l == lo + (fr \div 20)
  IN  [hi |-> hi + (l \div 65536), lo |-> l % 65536, fr |-> fr % 20]

\* The number a channel value is.
Num(v) == [hi |-> v.hi, lo |-> v.lo, fr |-> 0]

Zero == [hi |-> 0, lo |-> 0, fr |-> 0]
One == [hi |-> 0, lo |-> 1, fr |-> 0]
Y_MAX == [hi |-> 65536, lo |-> 0, fr |-> 0]

Plus(a, b) == Norm(a.hi + b.hi, a.lo + b.lo, a.fr + b.fr)
Minus(a, b) == Norm(a.hi - b.hi, a.lo - b.lo, a.fr - b.fr)

Less(a, b) ==
  \/ a.hi < b.hi
  \/ a.hi = b.hi /\ a.lo < b.lo
  \/ a.hi = b.hi /\ a.lo = b.lo /\ a.fr < b.fr

\* d * 0.05, d a whole number >= 0.
Times005(d) ==
  LET t == (d.hi % 20) * 65536 + d.lo
  IN  [hi |-> d.hi \div 20, lo |-> t \div 20, fr |-> t % 20]

\* Faulty variant of OrOne: no fallback, a zero pad stays zero.
OrOneMissing(x) == x

\* x || 1
OrOne(x) == IF x = Zero THEN One ELSE x

\* Faulty variant of MathMax: the second argument is returned unclamped.
MathMaxSecond(a, b) == b

MathMax(a, b) == IF Less(a, b) THEN b ELSE a
MathMin(a, b) == IF Less(b, a) THEN b ELSE a

RECURSIVE ScanFrom(_, _, _, _)
\* The scan loop from 1-based position i up to position last.
ScanFrom(b, i, last, mm) ==
  IF i > last THEN mm
  ELSE LET v == Num(b[i])
       IN  ScanFrom(b, i + 1, last,
                    [min |-> IF Less(v, mm.min) THEN v ELSE mm.min,
                     max |-> IF Less(mm.max, v) THEN v ELSE mm.max])

\* Faulty variant of MinMax: the loop stops before the last value.
MinMaxSkipsLast(b) ==
  ScanFrom(b, 2, Len(b) - 1, [min |-> Num(b[1]), max |-> Num(b[1])])

\* min = max = buffer[0]; for (i = 1; i < buffer.length; i++) { ... }
MinMax(b) ==
  ScanFrom(b, 2, Len(b), [min |-> Num(b[1]), max |-> Num(b[1])])

\* The autoscaled range of a non-empty window.
AutoRange(b) ==
  LET mm == MinMax(b)
      pad == OrOne(Times005(Minus(mm.max, mm.min)))
  IN  <<MathMax(Zero, Minus(mm.min, pad)), MathMin(Y_MAX, Plus(mm.max, pad))>>

\* Faulty variant of computeYDomain: the autoScale argument is ignored.
computeYDomainIgnoresFlag(b, auto) ==
  IF Len(b) = 0 THEN <<Zero, Y_MAX>> ELSE AutoRange(b)

\* computeYDomain(buffer, autoScale)
computeYDomain(b, auto) ==
  IF ~auto \/ Len(b) = 0 THEN <<Zero, Y_MAX>> ELSE AutoRange(b)

\* ------------------------------------------------------------------- Init
Unset == [hi |-> -1, lo |-> -1]

LoopInit ==
  /\ pc = "reading"
  /\ received = <<>>
  /\ split = FALSE
  /\ buffer = <<>>
  /\ parsed = <<>>
  /\ delivered = <<>>
  /\ errors = <<>>

\* The loop runs: reader acquired, listener registered, first read pending.
ExitInit ==
  /\ exitBy = "none"
  /\ readError = "none"
  /\ locked = TRUE
  /\ releases = 0
  /\ promise = "pending"
  /\ listener = TRUE

\* The port has a readable stream, a signal is passed, no call throws.
EnvInit ==
  /\ readable = TRUE
  /\ hasSignal = TRUE
  /\ faulty = {}

\* The handleDisconnect calls that can be in flight at once.
Handlers == {1, 2}

\* SerialControl after a successful handleConnect.
ControlInit ==
  /\ connected = TRUE
  /\ currentPort = TRUE
  /\ isDisconnecting = FALSE
  /\ controllerRef = TRUE
  /\ loopPromiseRef = TRUE
  /\ portState = "opened"
  /\ dpc = [h \in Handlers |-> "idle"]
  /\ loops = 1
  /\ closeCalls = 0
  /\ uiError = "none"

AppInit ==
  /\ lastPacket = NoPacket
  /\ dropped = 0

ChartInit ==
  /\ effectDep = 0
  /\ buffers = [ch \in Channels |-> <<>>]
  /\ dataVersion = 0
  /\ pushed = <<>>
  /\ chartData = Snapshot([ch \in Channels |-> <<>>])

WidgetInit ==
  /\ autoScale = FALSE
  /\ channelVisible = [ch \in Channels |-> TRUE]
  /\ toggles = 0

CancelInit ==
  /\ aborted = FALSE
  /\ cancelled = FALSE

\* No range returned yet.
NoDomain == <<[hi |-> -1, lo |-> -1, fr |-> -1], [hi |-> -1, lo |-> -1, fr |-> -1]>>

DomainIdle ==
  /\ dwin = <<>>
  /\ dauto = FALSE
  /\ dres = NoDomain

\* The two WaveformChart components of the repository.
Impls == {"recharts", "uplot"}

LoopBInit ==
  /\ receivedB = <<>>
  /\ splitB = FALSE
  /\ bufferB = <<>>
  /\ deliveredB = <<>>

CodecIdle ==
  /\ cbuf = <<>>
  /\ coff = 0
  /\ cvals = [ch \in Channels |-> Unset]
  /\ cres = [status |-> "none", data |-> NoData]

Init ==
  /\ pattern \in Patterns
  /\ LoopInit
  /\ ExitInit
  /\ EnvInit
  /\ ControlInit
  /\ CancelInit
  /\ AppInit
  /\ ChartInit
  /\ WidgetInit
  /\ impl = "recharts"
  /\ LoopBInit
  /\ CodecIdle
  /\ DomainIdle

\* ---------------------------------------------------------------- actions
\* SerialControl's error callback, called once per element of errs: while
\* a disconnect is in progress the error is dropped, else it becomes the
\* error shown.
errCb(shown, errs) ==
  IF errs = <<>> \/ isDisconnecting THEN shown ELSE errs[Len(errs)]

\* Faulty variant of releaseLock: the lock is not released.
releaseLockSkipped(n) == n

\* reader.releaseLock(): the count of calls so far, after this one.
releaseLock(n) == n + 1

\* if (signal && !signal.aborted) signal.removeEventListener('abort', onAbort):
\* whether onAbort is still registered afterwards.  ab is signal.aborted,
\* lst whether onAbort is registered before.
RemoveListener(ab, lst) == IF hasSignal /\ ~ab THEN FALSE ELSE lst

\* The loop is left by path: the finally block runs and startReadLoop's
\* promise resolves.
Finally(path, ab, lst) ==
  /\ pc' = "done"
  /\ exitBy' = path
  /\ listener' = RemoveListener(ab, lst)
  /\ releases' = releaseLock(releases)
  /\ locked' = IF releases' > releases THEN FALSE ELSE locked
  /\ promise' = "resolved"

\* reader.read() resolves with a chunk of n bytes; the loop handles it and
\* goes back to the top, where it leaves if the signal is aborted.
Read(n) ==
  /\ pc = "reading"
  /\ ~cancelled
  /\ Len(received) + n <= MaxBytes
  /\ LET chunk == StreamSlice(pattern, Len(received), n)
         out == ProcessChunk(buffer, chunk)
         app == onPacketAll([lastPacket |-> lastPacket,
                                  dropped |-> dropped],
                                 out.packets, Len(delivered) + 1)
     IN  /\ received' = received \o chunk
         /\ split' = (split \/ Len(received') % PACKET_SIZE # 0)
         /\ buffer' = out.buffer
         /\ parsed' = parsed \o out.blocks
         /\ delivered' = delivered \o out.packets
         /\ errors' = errors \o out.errs
         /\ lastPacket' = app.lastPacket
         /\ dropped' = app.dropped
         /\ uiError' = errCb(uiError, out.errs)
  /\ IF aborted
       THEN Finally("aborted", aborted, listener)
       ELSE /\ pc' = "reading"
            /\ UNCHANGED <<exitBy, locked, releases, promise, listener>>
  /\ UNCHANGED <<envVars, ctlVars, readError, cancelVars, chartVars,
                 widgetVars, loopBVars, codecVars, domainVars>>

\* Faulty variant of ReadDone: done is ignored and the loop pulls again.
ReadDoneContinues ==
  /\ pc = "reading"
  /\ ~cancelled
  /\ exitBy = "none"
  /\ exitBy' = "eos"
  /\ UNCHANGED <<envVars, ctlVars, uiError, pc, received, split, buffer,
                 parsed, delivered, errors, readError, locked, releases,
                 promise, listener, cancelVars, appVars, chartVars,
                 widgetVars, loopBVars, codecVars, domainVars>>

\* The source ends: reader.read() resolves with done, break, finally
\* releaseLock.
ReadDone ==
  /\ pc = "reading"
  /\ ~cancelled
  /\ Finally("eos", aborted, listener)
  /\ UNCHANGED <<envVars, ctlVars, uiError, received, split, buffer, parsed,
                 delivered, errors, readError, cancelVars, appVars,
                 chartVars, widgetVars, loopBVars, codecVars, domainVars>>

\* The errors reader.read() can reject with.
ReadErrors == {"NetworkError", "AbortError"}

\* Faulty variant of catchRead: the error is reported twice.
catchReadTwice(errs, err) ==
  IF err = "AbortError" THEN errs ELSE errs \o <<err, err>>

\* catch (err): onError(err) unless err is a DOMException named AbortError.
catchRead(errs, err) ==
  IF err = "AbortError" THEN errs ELSE Append(errs, err)

\* Faulty variant of ReadError: after the catch block the loop pulls again.
ReadErrorRetry(err) ==
  /\ pc = "reading"
  /\ ~cancelled
  /\ Len(errors) < 2
  /\ readError' = err
  /\ errors' = catchRead(errors, err)
  /\ uiError' = errCb(uiError, SubSeq(errors', Len(errors) + 1, Len(errors')))
  /\ exitBy' = "error"
  /\ UNCHANGED <<envVars, ctlVars, pc, locked, releases, promise, listener,
                 received, split, buffer, parsed, delivered, cancelVars,
                 appVars, chartVars, widgetVars, loopBVars, codecVars,
                 domainVars>>

\* reader.read() rejects with err: catch, finally releaseLock.
ReadError(err) ==
  /\ pc = "reading"
  /\ ~cancelled
  /\ readError' = err
  /\ errors' = catchRead(errors, err)
  /\ uiError' = errCb(uiError, SubSeq(errors', Len(errors) + 1, Len(errors')))
  /\ Finally("error", aborted, listener)
  /\ UNCHANGED <<envVars, ctlVars, received, split, buffer, parsed,
                 delivered, cancelVars, appVars, chartVars, widgetVars,
                 loopBVars, codecVars, domainVars>>

\* Faulty variant of onAbort: the listener does nothing, the flag alone is left
\* for the loop to poll.
onAbortFlagOnly(c) == c

\* onAbort: reader.cancel().  The argument is whether cancel() had been
\* called before, the result whether it has been called now.
onAbort(c) == TRUE

\* controller.abort(): signal.aborted becomes true and onAbort, if it is
\* registered, is called and (registered with once) removed.
RaiseAbort ==
  /\ aborted' = TRUE
  /\ cancelled' = IF listener THEN onAbort(cancelled) ELSE cancelled
  /\ listener' = FALSE

\* The owner of the signal calls controller.abort() after startReadLoop was
\* called.  If the loop still runs it is suspended in reader.read(): its
\* handling of a chunk is synchronous up to the next read.  A loop that has
\* ended has removed the listener.
Abort ==
  /\ pc # "idle"
  /\ hasSignal
  /\ ~aborted
  /\ RaiseAbort
  /\ UNCHANGED <<envVars, ctlVars, uiError, pc, received, split, buffer,
                 parsed, delivered, errors, exitBy, readError, locked,
                 releases, promise, appVars, chartVars, widgetVars,
                 loopBVars, codecVars, domainVars>>

\* reader.cancel() has closed the stream: the pending reader.read() resolves
\* with done, break, finally releaseLock.
ReadCancelled ==
  /\ pc = "reading"
  /\ cancelled
  /\ Finally("cancel", aborted, listener)
  /\ UNCHANGED <<envVars, ctlVars, uiError, received, split, buffer, parsed,
                 delivered, errors, readError, cancelVars, appVars,
                 chartVars, widgetVars, loopBVars, codecVars, domainVars>>

\* React renders App with the current lastPacket and runs WaveformChart's
\* packet effect, whose dependency [packet] changed.
Commit ==
  /\ RenderPending(lastPacket)
  /\ buffers' = PacketEffect(buffers, lastPacket.data)
  /\ pushed' = Append(pushed, lastPacket.id)
  /\ chartData' = Snapshot(buffers')
  /\ effectDep' = lastPacket.id
  /\ dataVersion' = IF impl = "recharts" THEN dataVersion + 1 ELSE dataVersion
  /\ UNCHANGED <<envVars, ctlVars, uiError, loopVars, cancelVars, appVars, widgetVars,
                 loopBVars, codecVars, domainVars>>

Next ==
  \/ \E n \in 1 .. MaxChunk : Read(n)
  \/ ReadDone
  \/ \E err \in ReadErrors : ReadError(err)
  \/ Abort
  \/ ReadCancelled
  \/ Commit

Spec == Init /\ [][Next]_vars

\* A read that reader.cancel() has resolved is a settled promise: its
\* continuation is a microtask, which the event loop runs.  Nothing is
\* assumed of the source.
SpecFair == Spec /\ WF_vars(ReadCancelled)

\* ------------------------------------------ startReadLoop called directly
\* What startReadLoop has done when it first suspends or returns, called
\* with a port whose readable stream is there or not (rd), with a signal or
\* not (sig), the signal aborted or not (ab).
NoReadableExit ==
  [pc |-> "done", exitBy |-> "noReadable", errs |-> <<"NoReadableStream">>,
   locked |-> FALSE, releases |-> 0, listener |-> FALSE, cancelled |-> FALSE,
   promise |-> "resolved"]

AbortedExit ==
  [pc |-> "done", exitBy |-> "aborted", errs |-> <<>>,
   locked |-> FALSE, releases |-> releaseLock(0), listener |-> FALSE,
   cancelled |-> onAbort(FALSE), promise |-> "resolved"]

FirstRead(sig, canc) ==
  [pc |-> "reading", exitBy |-> "none", errs |-> <<>>,
   locked |-> TRUE, releases |-> 0, listener |-> sig, cancelled |-> canc,
   promise |-> "pending"]

\* Faulty variant of Entry: the signal is not checked at the top of the loop,
\* a read is issued on the cancelled reader.
EntryNoTopCheck(rd, sig, ab) ==
  IF ~rd THEN NoReadableExit
  ELSE IF sig /\ ab
    THEN [FirstRead(FALSE, onAbort(FALSE)) EXCEPT !.listener = FALSE]
    ELSE FirstRead(sig, FALSE)

\* Faulty variant of Entry: the listener is registered before port.readable is
\* looked at, and the missing stream is not reported.
EntrySilent(rd, sig, ab) ==
  IF ~rd
    THEN [NoReadableExit EXCEPT !.errs = <<>>, !.listener = sig /\ ~ab]
  ELSE IF sig /\ ab THEN AbortedExit
  ELSE FirstRead(sig, FALSE)

Entry(rd, sig, ab) ==
  IF ~rd THEN NoReadableExit
  ELSE IF sig /\ ab THEN AbortedExit
  ELSE FirstRead(sig, FALSE)

\* The state of the loop's variables that Entry gives.
EnterLoop(e) ==
  /\ pc' = e.pc
  /\ exitBy' = e.exitBy
  /\ errors' = errors \o e.errs
  /\ uiError' = errCb(uiError, e.errs)
  /\ locked' = e.locked
  /\ releases' = e.releases
  /\ listener' = e.listener
  /\ cancelled' = e.cancelled
  /\ promise' = e.promise
  /\ buffer' = <<>>
  /\ readError' = "none"

\* A caller calls startReadLoop(port, onPacket, onError, signal).
startReadLoop ==
  /\ pc = "idle"
  /\ EnterLoop(Entry(readable, hasSignal, aborted))
  /\ UNCHANGED <<envVars, ctlVars, received, split, parsed, delivered,
                 aborted, appVars, chartVars, widgetVars, loopBVars,
                 codecVars, domainVars>>

\* reader.read() resolves with a chunk of n bytes holding the end of a
\* frame, and the caller's onPacket raises the signal while it handles the
\* chunk's first packet: onAbort cancels the reader, the inner loop goes on
\* to the end of the chunk, and the loop leaves at the top.
ReadAbort(n) ==
  /\ pc = "reading"
  /\ ~cancelled
  /\ hasSignal
  /\ ~aborted
  /\ Len(received) + n <= MaxBytes
  /\ LET chunk == StreamSlice(pattern, Len(received), n)
         out == ProcessChunk(buffer, chunk)
         app == onPacketAll([lastPacket |-> lastPacket,
                             dropped |-> dropped],
                            out.packets, Len(delivered) + 1)
     IN  /\ out.packets # <<>>
         /\ received' = received \o chunk
         /\ split' = (split \/ Len(received') % PACKET_SIZE # 0)
         /\ buffer' = out.buffer
         /\ parsed' = parsed \o out.blocks
         /\ delivered' = delivered \o out.packets
         /\ errors' = errors \o out.errs
         /\ lastPacket' = app.lastPacket
         /\ dropped' = app.dropped
         /\ uiError' = errCb(uiError, out.errs)
  /\ aborted' = TRUE
  /\ cancelled' = IF listener THEN onAbort(cancelled) ELSE cancelled
  /\ Finally("aborted", TRUE, FALSE)
  /\ UNCHANGED <<envVars, ctlVars, readError, chartVars, widgetVars,
                 loopBVars, codecVars, domainVars>>

InitEntry ==
  /\ pattern \in Patterns
  /\ readable \in BOOLEAN
  /\ hasSignal \in BOOLEAN
  /\ aborted \in {a \in BOOLEAN : a => hasSignal}
  /\ cancelled = FALSE
  /\ faulty = {}
  /\ pc = "idle"
  /\ received = <<>>
  /\ split = FALSE
  /\ buffer = <<>>
  /\ parsed = <<>>
  /\ delivered = <<>>
  /\ errors = <<>>
  /\ exitBy = "none"
  /\ readError = "none"
  /\ locked = FALSE
  /\ releases = 0
  /\ promise = "none"
  /\ listener = FALSE
  /\ ControlInit
  /\ AppInit
  /\ ChartInit
  /\ WidgetInit
  /\ impl = "recharts"
  /\ LoopBInit
  /\ CodecIdle
  /\ DomainIdle

NextEntry ==
  \/ startReadLoop
  \/ \E n \in 1 .. MaxChunk : Read(n)
  \/ \E n \in 1 .. MaxChunk : ReadAbort(n)
  \/ ReadDone
  \/ \E err \in ReadErrors : ReadError(err)
  \/ Abort
  \/ ReadCancelled
  \/ Commit

SpecEntry == InitEntry /\ [][NextEntry]_vars

\* ------------------------------------------------ a try body that throws
\* Most frames of the stream on which the try body throws.
MaxFaulty == 2

\* The first frames of the stream, as blocks.
StreamBlocks(p) ==
  {StreamSlice(p, (k - 1) * PACKET_SIZE, PACKET_SIZE) :
     k \in 1 .. (MaxBytes \div PACKET_SIZE)}

InitIsolation ==
  /\ pattern \in Patterns
  /\ readable = TRUE
  /\ hasSignal = TRUE
  /\ faulty \in {f \in SUBSET StreamBlocks(pattern) : Cardinality(f) <= MaxFaulty}
  /\ LoopInit
  /\ ExitInit
  /\ ControlInit
  /\ CancelInit
  /\ AppInit
  /\ ChartInit
  /\ WidgetInit
  /\ impl = "recharts"
  /\ LoopBInit
  /\ CodecIdle
  /\ DomainIdle

SpecIsolation == InitIsolation /\ [][Next]_vars

\* ---------------------------------------------------------- SerialControl
\* Most read loops started on the port.
MaxLoops == 2

\* port.open(): the port starts to open if it is closed, the call is
\* rejected in every other state.
open(state) == IF state = "closed" THEN "opening" ELSE "rejected"

\* port.close(): the port starts to close if it is open and its readable
\* stream is not locked, the call is rejected otherwise.
close(state, lck) ==
  IF state = "opened" /\ ~lck THEN "closing" ELSE "rejected"

\* Faulty variant of abortController: handleDisconnect does not abort.
abortControllerSkipped(ctrl) == FALSE

\* if (controller) { controller.abort(); ... }: whether the signal is raised.
abortController(ctrl) == ctrl

\* Faulty variant of awaitReadLoop: the loop's promise is not awaited.
awaitReadLoopSkipped(ref) == FALSE

\* if (readLoopPromise) { await readLoopPromise; ... }: whether the handler
\* waits.
awaitReadLoop(ref) == ref

\* A handler that awaits the settled promise of the loop resumes before any
\* click or port event is handled.
MicrotaskPending ==
  \E h \in Handlers : dpc[h] = "awaitLoop" /\ promise = "resolved"

\* The Connect button is clicked: clearError, await open(port, baudRate); a
\* rejected open is reported by the catch block.
handleConnect ==
  /\ ~connected
  /\ ~MicrotaskPending
  /\ loops < MaxLoops
  /\ LET r == open(portState)
     IN  /\ portState' = IF r = "rejected" THEN portState ELSE r
         /\ uiError' = IF r = "rejected" THEN "InvalidStateError" ELSE "none"
  /\ UNCHANGED <<envVars, connected, currentPort, isDisconnecting,
                 controllerRef, loopPromiseRef, dpc, loops, closeCalls,
                 loopVars, cancelVars, appVars, chartVars, widgetVars,
                 loopBVars, codecVars, domainVars>>

\* open resolved: handleConnect stores the port and a new AbortController,
\* shows Disconnect, starts the read loop with the controller's signal and
\* stores the loop's promise.
OpenResolved ==
  /\ portState = "opening"
  /\ ~MicrotaskPending
  /\ portState' = "opened"
  /\ currentPort' = TRUE
  /\ controllerRef' = TRUE
  /\ aborted' = FALSE
  /\ connected' = TRUE
  /\ EnterLoop(Entry(readable, hasSignal, FALSE))
  /\ loopPromiseRef' = TRUE
  /\ loops' = loops + 1
  /\ UNCHANGED <<envVars, isDisconnecting, dpc, closeCalls, received, split,
                 parsed, delivered, appVars, chartVars, widgetVars,
                 loopBVars, codecVars, domainVars>>

\* open rejected: the catch block of handleConnect reports the error.
OpenRejected ==
  /\ portState = "opening"
  /\ ~MicrotaskPending
  /\ portState' = "closed"
  /\ uiError' = "NetworkError"
  /\ UNCHANGED <<envVars, connected, currentPort, isDisconnecting,
                 controllerRef, loopPromiseRef, dpc, loops, closeCalls,
                 loopVars, cancelVars, appVars, chartVars, widgetVars,
                 loopBVars, codecVars, domainVars>>

\* Handler h of handleDisconnect calls close(port): the handler waits for the
\* port if the call is accepted; if it is rejected the catch block reports
\* the error and the finally block shows Connect again.
CallClose(h) ==
  LET r == close(portState, locked)
  IN  /\ closeCalls' = closeCalls + 1
      /\ portState' = IF r = "rejected" THEN portState ELSE r
      /\ uiError' = IF r = "rejected" THEN "InvalidStateError" ELSE uiError
      /\ dpc' = [dpc EXCEPT ![h] = IF r = "rejected" THEN "idle"
                                                     ELSE "awaitClose"]
      /\ currentPort' = IF r = "rejected" THEN FALSE ELSE currentPort
      /\ isDisconnecting' = IF r = "rejected" THEN FALSE ELSE isDisconnecting
      /\ connected' = IF r = "rejected" THEN FALSE ELSE connected

\* The Disconnect button is clicked: handleDisconnect up to its first await.
handleDisconnect(h) ==
  /\ connected
  /\ ~MicrotaskPending
  /\ dpc[h] = "idle"
  /\ IF ~currentPort
       THEN UNCHANGED <<ctlVars, uiError, cancelVars, listener>>
       ELSE /\ IF abortController(controllerRef)
                 THEN RaiseAbort
                 ELSE UNCHANGED <<cancelVars, listener>>
            /\ controllerRef' = FALSE
            /\ IF awaitReadLoop(loopPromiseRef)
                 THEN /\ isDisconnecting' = TRUE
                      /\ dpc' = [dpc EXCEPT ![h] = "awaitLoop"]
                      /\ UNCHANGED <<connected, currentPort, portState,
                                     closeCalls, uiError>>
                 ELSE CallClose(h)
            /\ UNCHANGED <<loopPromiseRef, loops>>
  /\ UNCHANGED <<envVars, pc, received, split, buffer, parsed, delivered,
                 errors, exitBy, readError, locked, releases, promise,
                 appVars, chartVars, widgetVars, loopBVars, codecVars,
                 domainVars>>

\* The loop's promise has settled: handler h clears readLoopPromiseRef and
\* calls close(port).
DisconnectLoopSettled(h) ==
  /\ dpc[h] = "awaitLoop"
  /\ promise = "resolved"
  /\ loopPromiseRef' = FALSE
  /\ CallClose(h)
  /\ UNCHANGED <<envVars, controllerRef, loops, loopVars, cancelVars,
                 appVars, chartVars, widgetVars, loopBVars, codecVars,
                 domainVars>>

\* The port has closed: the finally block of the handler that waits for it.
CloseResolved(h) ==
  /\ dpc[h] = "awaitClose"
  /\ portState = "closing"
  /\ ~MicrotaskPending
  /\ portState' = "closed"
  /\ currentPort' = FALSE
  /\ isDisconnecting' = FALSE
  /\ connected' = FALSE
  /\ dpc' = [dpc EXCEPT ![h] = "idle"]
  /\ UNCHANGED <<envVars, controllerRef, loopPromiseRef, loops, closeCalls,
                 uiError, loopVars, cancelVars, appVars, chartVars,
                 widgetVars, loopBVars, codecVars, domainVars>>

\* The chunk sizes the port delivers: a whole frame, and less than half a
\* frame.
ControlChunks == {PACKET_SIZE, PACKET_SIZE \div 2 - 1}

InitControl ==
  /\ pattern \in Patterns
  /\ EnvInit
  /\ pc = "idle"
  /\ received = <<>>
  /\ split = FALSE
  /\ buffer = <<>>
  /\ parsed = <<>>
  /\ delivered = <<>>
  /\ errors = <<>>
  /\ exitBy = "none"
  /\ readError = "none"
  /\ locked = FALSE
  /\ releases = 0
  /\ promise = "none"
  /\ listener = FALSE
  /\ connected = FALSE
  /\ currentPort = FALSE
  /\ isDisconnecting = FALSE
  /\ controllerRef = FALSE
  /\ loopPromiseRef = FALSE
  /\ portState = "closed"
  /\ dpc = [h \in Handlers |-> "idle"]
  /\ loops = 0
  /\ closeCalls = 0
  /\ uiError = "none"
  /\ CancelInit
  /\ AppInit
  /\ ChartInit
  /\ WidgetInit
  /\ impl = "recharts"
  /\ LoopBInit
  /\ CodecIdle
  /\ DomainIdle

\* App's render (Commit) reads and writes nothing of SerialControl or of the
\* loop and is left to Spec.
NextControl ==
  \/ handleConnect
  \/ OpenResolved
  \/ OpenRejected
  \/ \E h \in Handlers : handleDisconnect(h)
  \/ \E h \in Handlers : DisconnectLoopSettled(h)
  \/ \E h \in Handlers : CloseResolved(h)
  \/ \E n \in ControlChunks : Read(n)
  \/ ReadDone
  \/ \E err \in ReadErrors : ReadError(err)
  \/ ReadCancelled

SpecControl == InitControl /\ [][NextControl]_vars

\* ------------------------------------------- two read loops, one stream
\* A second run of startReadLoop over the same byte stream, cut into chunks
\* independently of the first.
ReadB(n) ==
  /\ Len(receivedB) + n <= MaxBytes
  /\ LET chunk == StreamSlice(pattern, Len(receivedB), n)
         out == ProcessChunk(bufferB, chunk)
     IN  /\ receivedB' = receivedB \o chunk
         /\ splitB' = (splitB \/ Len(receivedB') % PACKET_SIZE # 0)
         /\ bufferB' = out.buffer
         /\ deliveredB' = deliveredB \o out.packets
  /\ UNCHANGED <<envVars, ctlVars, uiError, loopVars, cancelVars, appVars, chartVars,
                 widgetVars, codecVars, domainVars>>

NextChunking ==
  \/ \E n \in 1 .. MaxChunk : Read(n)
  \/ \E n \in 1 .. MaxChunk : ReadB(n)

SpecChunking == Init /\ [][NextChunking]_vars

\* ------------------------------------------------- App and WaveformChart
\* The k-th frame (1-based) of stream p, decoded.
SampleAt(p, k) ==
  parsePacket(StreamSlice(p, (k - 1) * PACKET_SIZE, PACKET_SIZE), 0).data

\* SerialControl calls App's onPacket (setLastPacket) with the next decoded
\* sample of the stream.
setLastPacket ==
  /\ Len(delivered) < MaxPackets
  /\ RenderPending(lastPacket) => dropped < MaxDropped
  /\ LET data == SampleAt(pattern, Len(delivered) + 1)
         app == onPacketAll([lastPacket |-> lastPacket,
                                  dropped |-> dropped],
                                 <<data>>, Len(delivered) + 1)
     IN  /\ delivered' = Append(delivered, data)
         /\ lastPacket' = app.lastPacket
         /\ dropped' = app.dropped
  /\ UNCHANGED <<envVars, ctlVars, uiError, pc, received, split, buffer,
                 parsed, errors, exitVars, cancelVars, chartVars, widgetVars,
                 loopBVars, codecVars, domainVars>>

\* Either WaveformChart is mounted.
InitChart ==
  /\ pattern \in Patterns
  /\ LoopInit
  /\ ExitInit
  /\ EnvInit
  /\ ControlInit
  /\ CancelInit
  /\ AppInit
  /\ ChartInit
  /\ WidgetInit
  /\ impl \in Impls
  /\ LoopBInit
  /\ CodecIdle
  /\ DomainIdle

NextChart ==
  \/ setLastPacket
  \/ Commit

SpecChart == InitChart /\ [][NextChart]_vars

\* ------------------------------------- autoscale checkbox, channel buttons
\* The checkbox's onChange: setAutoScale(e.target.checked), and the render
\* React makes at once for a click.  That render shows the packet of the
\* last render (an onPacket not yet rendered stays pending) and runs the
\* effects whose dependencies changed: none in the Recharts chart
\* ([packet]), the packet effect in the uPlot chart ([packet, autoScale]),
\* which returns early when packet is null.
toggleAutoScale ==
  /\ toggles < MaxToggles
  /\ toggles' = toggles + 1
  /\ autoScale' = ~autoScale
  /\ IF impl = "uplot" /\ effectDep # 0
       THEN /\ buffers' = PacketEffect(buffers, delivered[effectDep])
            /\ pushed' = Append(pushed, effectDep)
       ELSE UNCHANGED <<buffers, pushed>>
  /\ chartData' = Snapshot(buffers')
  /\ UNCHANGED <<envVars, ctlVars, uiError, loopVars, cancelVars, appVars, effectDep,
                 dataVersion, impl, channelVisible, loopBVars, codecVars,
                 domainVars>>

\* App's handleChannelVisibleChange(index, visible), called by a channel
\* button of SerialControl, and the render that follows: no dependency of
\* the packet effect changes.
handleChannelVisibleChange(index, visible) ==
  /\ toggles < MaxToggles
  /\ toggles' = toggles + 1
  /\ channelVisible' = [channelVisible EXCEPT ![index] = visible]
  /\ chartData' = Snapshot(buffers)
  /\ UNCHANGED <<envVars, ctlVars, uiError, loopVars, cancelVars, appVars, effectDep, buffers,
                 dataVersion, pushed, impl, autoScale, loopBVars, codecVars,
                 domainVars>>

NextToggle ==
  \/ Len(delivered) < MaxTogglePackets /\ setLastPacket
  \/ Commit
  \/ toggleAutoScale
  \/ \E ch \in Channels : handleChannelVisibleChange(ch, ~channelVisible[ch])

SpecToggle == InitChart /\ [][NextToggle]_vars

\* ------------------------------------------------ parsePacket called alone
\* Channel values a caller writes into a block.
U32Samples == { U32(0, 0), U32(0, 1), U32(258, 772), U32(32768, 255),
                U32(65535, 65535) }

\* DataView.prototype.setUint32(byteOffset, v, littleEndian) on buf.
setUint32(buf, byteOffset, v, littleEndian) ==
  LET le == <<v.lo % 256, v.lo \div 256, v.hi % 256, v.hi \div 256>>
      raw == IF littleEndian THEN le ELSE [k \in 1 .. 4 |-> le[5 - k]]
  IN  [i \in 1 .. Len(buf) |->
         IF i > byteOffset /\ i <= byteOffset + 4
           THEN raw[i - byteOffset] ELSE buf[i]]

InitCodec ==
  /\ pattern \in Patterns
  /\ LoopInit
  /\ ExitInit
  /\ EnvInit
  /\ ControlInit
  /\ CancelInit
  /\ AppInit
  /\ ChartInit
  /\ WidgetInit
  /\ impl = "recharts"
  /\ LoopBInit
  /\ DomainIdle
  /\ \E len \in 0 .. MaxBufLen : cbuf = StreamSlice(pattern, 0, len)
  /\ coff \in 0 .. MaxOffset
  /\ cvals = [ch \in Channels |-> Unset]
  /\ cres = [status |-> "none", data |-> NoData]

\* The caller writes v little-endian at channel ch's place in the block
\* that starts at coff.
CodecWrite(ch, v) ==
  /\ coff + BYTES_PER_CHANNEL * ch + 4 <= Len(cbuf)
  /\ cbuf' = setUint32(cbuf, coff + BYTES_PER_CHANNEL * ch, v, TRUE)
  /\ cvals' = [cvals EXCEPT ![ch] = v]
  /\ cres' = [status |-> "none", data |-> NoData]
  /\ UNCHANGED <<envVars, ctlVars, uiError, coff, loopVars, cancelVars, appVars, chartVars,
                 widgetVars, loopBVars, domainVars>>

\* The caller calls parsePacket(cbuf, coff).
CodecParse ==
  /\ cres.status = "none"
  /\ cres' = parsePacket(cbuf, coff)
  /\ UNCHANGED <<envVars, ctlVars, uiError, cbuf, coff, cvals, loopVars, cancelVars, appVars,
                 chartVars, widgetVars, loopBVars, domainVars>>

NextCodec ==
  \/ \E ch \in Channels, v \in U32Samples : CodecWrite(ch, v)
  \/ CodecParse

SpecCodec == InitCodec /\ [][NextCodec]_vars

\* --------------------------------------------- computeYDomain called alone
\* Channel values a caller puts into a window.
DomainValues == { U32(0, 0), U32(0, 5), U32(0, 10), U32(0, 20), U32(0, 30),
                  U32(32768, 0), U32(65535, 65535) }

\* Windows of at most n values.
Windows(n) == UNION { [1 .. k -> DomainValues] : k \in 0 .. n }

InitDomain ==
  /\ pattern = <<0, 0, 0>>
  /\ LoopInit
  /\ ExitInit
  /\ EnvInit
  /\ ControlInit
  /\ CancelInit
  /\ AppInit
  /\ ChartInit
  /\ WidgetInit
  /\ impl = "recharts"
  /\ LoopBInit
  /\ CodecIdle
  /\ dwin \in Windows(MaxWindow)
  /\ dauto \in BOOLEAN
  /\ dres = NoDomain

\* The caller calls computeYDomain(dwin, dauto), as WaveformChart's render
\* does for each channel.
DomainCompute ==
  /\ dres = NoDomain
  /\ dres' = computeYDomain(dwin, dauto)
  /\ UNCHANGED <<envVars, ctlVars, uiError, loopVars, cancelVars, appVars, chartVars,
                 widgetVars, loopBVars, codecVars, dwin, dauto>>

NextDomain == DomainCompute

SpecDomain == InitDomain /\ [][NextDomain]_vars

\* ----------------------------------------------------------------- claims
RECURSIVE Flatten(_)
\* The concatenation of a sequence of byte blocks.
Flatten(blocks) ==
  IF blocks = <<>> THEN <<>> ELSE Head(blocks) \o Flatten(Tail(blocks))

\* The k-th 16-byte frame (1-based) of a byte sequence.
FrameOf(bytes, k) == SubSeq(bytes, (k - 1) * PACKET_SIZE + 1, k * PACKET_SIZE)

\* C1: at every pull and at termination, the blocks extracted so far, in
\* extraction order, followed by the carry-over buffer, are exactly the bytes
\* of all chunks received: no byte lost, none reordered.
C1_NoByteLostOrReordered == Flatten(parsed) \o buffer = received

C1_Witness ==
  /\ split
  /\ pattern[1] # 0
  /\ Len(parsed) >= 2
  /\ Len(buffer) > 0

\* C2: whenever the loop is about to pull the next chunk, and when it has
\* terminated, the carry-over buffer holds fewer than PACKET_SIZE bytes.
C2_CarryOverBelowFrameSize ==
  pc \in {"reading", "done"} => Len(buffer) \in 0 .. (PACKET_SIZE - 1)

C2_Witness ==
  /\ Len(buffer) = PACKET_SIZE - 1
  /\ Len(parsed) >= 2

\* C3: two read loops that have received the same byte sequence, however each
\* was cut into chunks, have delivered the same samples in the same order.
C3_ChunkingIndependent == received = receivedB => delivered = deliveredB

C3_Witness ==
  /\ received = receivedB
  /\ Len(received) = 2 * PACKET_SIZE
  /\ split
  /\ ~splitB
  /\ Len(delivered) = 2
  /\ pattern[1] # 0

\* C4: a successful parsePacket(cbuf, coff) returns for each channel i the
\* unsigned little-endian value of the four bytes at coff + 4i, that is
\* b0 + 256*b1 + 65536*(b2 + 256*b3), given here as its 16-bit limbs
\* lo = b0 + 256*b1 and hi = b2 + 256*b3, both in 0 .. 65535, so the value
\* lies in 0 .. 2^32 - 1.
C4_LittleEndianChannels ==
  cres.status = "ok" =>
    \A i \in Channels :
      LET b(j) == cbuf[coff + 4 * i + j + 1]
          v == Ch(cres.data, i)
      IN  /\ v.lo = b(0) + 256 * b(1)
          /\ v.hi = b(2) + 256 * b(3)
          /\ v.lo \in 0 .. 65535
          /\ v.hi \in 0 .. 65535

C4_Witness ==
  /\ cres.status = "ok"
  /\ coff > 0
  /\ cres.data.ch1 = U32(258, 772)
  /\ cres.data.ch3 = U32(65535, 65535)

\* C5: when all four channels of the block were written little-endian and
\* the block is then parsed, each channel comes back as the value written.
C5_RoundTrip ==
  (cres.status = "ok" /\ \A ch \in Channels : cvals[ch] # Unset) =>
    \A ch \in Channels : Ch(cres.data, ch) = cvals[ch]

C5_Witness ==
  /\ cres.status = "ok"
  /\ coff = 0
  /\ Len(cbuf) = PACKET_SIZE
  /\ cvals[0] = U32(65535, 65535)
  /\ cvals[1] = U32(0, 0)
  /\ cvals[2] = U32(258, 772)
  /\ cvals[3] = U32(32768, 255)

\* C6: a parsePacket call on a buffer shorter than offset + 16 ends in a
\* RangeError and yields no sample.
C6_ShortBlockRejected ==
  (cres.status # "none" /\ Len(cbuf) < coff + PACKET_SIZE) =>
    (cres.status = "RangeError" /\ cres.data = NoData)

C6_Witness ==
  /\ cres.status = "RangeError"
  /\ coff > 0
  /\ Len(cbuf) = coff + PACKET_SIZE - 1

\* C7: every block the read loop has handed to parsePacket has exactly
\* PACKET_SIZE bytes, and the loop has reported no RangeError.
C7_BlocksAreFrameSized ==
  /\ \A k \in 1 .. Len(parsed) : Len(parsed[k]) = PACKET_SIZE
  /\ \A k \in 1 .. Len(errors) : errors[k] # "RangeError"

C7_Witness ==
  /\ split
  /\ Len(parsed) >= 3

\* C8: at every pull and at termination, onPacket has been called once for
\* each complete frame of the bytes received, in the frames' order in the
\* byte stream: the k-th call carried the decoding of the k-th frame, and no
\* complete frame is still waiting.
C8_DeliveredInArrivalOrder ==
  /\ Len(delivered) = Len(received) \div PACKET_SIZE
  /\ \A k \in 1 .. Len(delivered) :
       delivered[k] = parsePacket(FrameOf(received, k), 0).data

C8_Witness ==
  /\ split
  /\ pattern[1] # 0
  /\ Len(delivered) = 3
  /\ delivered[1] # delivered[2]
  /\ delivered[2] # delivered[3]

\* The values of channel ch in a sequence of samples.
ChannelValues(samples, ch) ==
  [k \in 1 .. Len(samples) |-> Ch(samples[k], ch)]

\* C9: once the chart has caught up with App (no render is due), every
\* channel window holds the channel's value of every delivered sample, once
\* each and in arrival order, as long as no more than POINTS were delivered.
C9_EverySampleInWindows ==
  (~RenderPending(lastPacket) /\ Len(delivered) <= POINTS) =>
    \A ch \in Channels : buffers[ch] = ChannelValues(delivered, ch)

\* C10: no channel window ever holds more than POINTS values, and a packet
\* effect that finds a window holding POINTS values leaves it holding POINTS:
\* the old values but the oldest, followed by the packet's value.
C10_WindowBounded ==
  /\ [](\A ch \in Channels : Len(buffers[ch]) <= POINTS)
  /\ [][\A ch \in Channels :
          (Len(pushed') # Len(pushed) /\ Len(buffers[ch]) = POINTS) =>
             buffers'[ch] = Tail(buffers[ch])
                              \o <<Ch(lastPacket.data, ch)>>]_vars

C10_Witness ==
  /\ pattern[1] # 0
  /\ Len(pushed) > POINTS
  /\ impl = "recharts" => dataVersion > POINTS
  /\ \A ch \in Channels : Len(buffers[ch]) = POINTS

\* The last n packets pushed, as channel ch's values, oldest first.
LastPushed(n, ch) ==
  [i \in 1 .. n |-> Ch(delivered[pushed[Len(pushed) - n + i]], ch)]

\* C11: once more than POINTS packets have been pushed, every channel window
\* holds exactly the last POINTS pushed values, oldest first, and the series
\* shown has POINTS present entries equal to them.
C11_WindowIsLastPoints ==
  Len(pushed) > POINTS =>
    \A ch \in Channels :
      /\ buffers[ch] = LastPushed(POINTS, ch)
      /\ \A i \in 1 .. POINTS :
           /\ chartData[ch][i].value # Null
           /\ chartData[ch][i].value = LastPushed(POINTS, ch)[i]

C11_Witness ==
  /\ pattern[1] # 0
  /\ Len(pushed) = POINTS + 2
  /\ dropped > 0
  /\ chartData[2][1].value = Ch(delivered[pushed[3]], 2)
  /\ chartData[2][1].value # Ch(delivered[pushed[1]], 2)

\* C12: the series of a window always has exactly POINTS entries with point
\* = 0 .. POINTS - 1 in order; entry i carries the window's i-th oldest value
\* when i is below the window's length and is null otherwise.
C12_SnapshotShape ==
  \A ch \in Channels :
    /\ Len(chartData[ch]) = POINTS
    /\ \A i \in 0 .. (POINTS - 1) :
         /\ chartData[ch][i + 1].point = i
         /\ i < Len(buffers[ch]) => chartData[ch][i + 1].value = buffers[ch][i + 1]
         /\ i >= Len(buffers[ch]) => chartData[ch][i + 1].value = Null

C12_Witness ==
  /\ pattern[1] # 0
  /\ Len(buffers[1]) = 7
  /\ chartData[1][7].value = buffers[1][7]
  /\ chartData[1][1].value # chartData[1][7].value
  /\ chartData[1][8].value = Null

\* C13: a click on the autoscale checkbox or on a channel button, in any
\* state and with either WaveformChart, leaves all four windows unchanged.
C13_TogglesLeaveWindows ==
  [][(autoScale' # autoScale \/ channelVisible' # channelVisible) =>
       buffers' = buffers]_vars

\* C14: all four channel windows have the same length, at most POINTS, and
\* their i-th entries are the four channel values of one pushed sample, the
\* same sample for every channel.
C14_WindowsAligned ==
  LET n == Len(buffers[0])
  IN  /\ n = Min(Len(pushed), POINTS)
      /\ \A ch \in Channels :
           /\ Len(buffers[ch]) = n
           /\ buffers[ch] = LastPushed(n, ch)

C14_Witness ==
  /\ pattern[1] # 0
  /\ dropped > 0
  /\ Len(buffers[3]) = 5
  /\ buffers[0][5] # buffers[3][5]
  /\ buffers[3][5] = delivered[pushed[5]].ch3

\* C15: computeYDomain returns (0, 2^32) whenever autoscale is disabled,
\* whatever the window holds, and whenever the window is empty.
C15_FixedRange ==
  (dres # NoDomain /\ (~dauto \/ dwin = <<>>)) =>
    dres = <<[hi |-> 0, lo |-> 0, fr |-> 0], [hi |-> 65536, lo |-> 0, fr |-> 0]>>

C15_Witness ==
  /\ ~dauto
  /\ dwin = <<U32(0, 10), U32(65535, 65535), U32(0, 0)>>
  /\ dres = <<Zero, Y_MAX>>

\* The smallest and the largest value of a non-empty window.
Smallest(w) ==
  CHOOSE v \in {Num(w[i]) : i \in 1 .. Len(w)} :
    \A i \in 1 .. Len(w) : ~Less(Num(w[i]), v)

Largest(w) ==
  CHOOSE v \in {Num(w[i]) : i \in 1 .. Len(w)} :
    \A i \in 1 .. Len(w) : ~Less(v, Num(w[i]))

\* 20 * x, x a number.
Times20(x) == Norm(20 * x.hi, 20 * x.lo, 20 * x.fr)

\* The whole number n, 0 <= n < 65536.
Whole(n) == [hi |-> 0, lo |-> n, fr |-> 0]

C17_RangeWithinBounds ==
  dres # NoDomain =>
    /\ ~Less(dres[1], Zero)
    /\ ~Less(dres[2], dres[1])
    /\ ~Less(Y_MAX, dres[2])

C17_Witness ==
  /\ dauto
  /\ dwin = <<U32(65535, 65535), U32(0, 0)>>
  /\ dres = <<Zero, Y_MAX>>

\* C18: for every non-empty window of values in 0 .. 2^32 - 1 with autoscale
\* enabled, a flat one at 0 or at 2^32 - 1 included, the range returned has
\* low < high.
C18_RangeNotDegenerate ==
  (dres # NoDomain /\ dauto /\ dwin # <<>>) => Less(dres[1], dres[2])

C18_Witness ==
  /\ dauto
  /\ dwin = <<U32(65535, 65535), U32(65535, 65535)>>
  /\ dres = <<[hi |-> 65535, lo |-> 65534, fr |-> 0], Y_MAX>>

\* C19: once the cancel signal has been raised while a read was pending, the
\* loop consumes no further chunk and calls onPacket no more: its only step
\* left is to end.
C19_NoPacketAfterCancel ==
  [][aborted =>
       /\ delivered' = delivered
       /\ received' = received
       /\ parsed' = parsed
       /\ pc' # pc => pc' = "done"]_vars

C19_Witness ==
  /\ aborted
  /\ cancelled
  /\ pc = "done"
  /\ Len(delivered) >= 1
  /\ Len(received) < MaxBytes

\* C20: when the cancel signal is raised while the loop is suspended in a
\* pending read, the read is cancelled and the loop eventually ends, even if
\* the source never produces another chunk.
C20_CancelEndsLoop ==
  /\ []((aborted /\ pc = "reading") => cancelled)
  /\ (aborted /\ pc = "reading") ~> (pc = "done")

C20_Witness ==
  /\ aborted
  /\ cancelled
  /\ pc = "done"
  /\ buffer # <<>>
  /\ Len(received) < PACKET_SIZE

C22_ReadErrorEndsLoop ==
  /\ [][(readError = "none" /\ readError' \notin {"none", "AbortError"}) =>
          /\ errors' = Append(errors, readError')
          /\ delivered' = delivered
          /\ received' = received
          /\ pc' = "done"]_vars
  /\ [][readError # "none" =>
          /\ errors' = errors
          /\ delivered' = delivered
          /\ received' = received
          /\ pc' = "done"]_vars

C22_Witness ==
  /\ exitBy = "error"
  /\ readError = "NetworkError"
  /\ errors = <<"NetworkError">>
  /\ Len(delivered) >= 1
  /\ Len(received) < MaxBytes

\* The complete frames of a byte sequence, in order.
CompleteFrames(bytes) ==
  [k \in 1 .. (Len(bytes) \div PACKET_SIZE) |-> FrameOf(bytes, k)]

\* The frames on which the try body does not throw.
Sound(b) == b \notin faulty

\* The frames on which the try body throws.
Unsound(b) == b \in faulty

\* C23: when the try body throws on some blocks, onError has been called
\* once for each such block, onPacket has been called with the decoding of
\* every other complete frame received, in the frames' order, and a decode
\* error does not end the loop.
C23_DecodeErrorIsolated ==
  LET good == SelectSeq(CompleteFrames(received), Sound)
      bad == SelectSeq(CompleteFrames(received), Unsound)
  IN  /\ Len(delivered) = Len(good)
      /\ \A k \in 1 .. Len(good) :
           delivered[k] = parsePacket(good[k], 0).data
      /\ exitBy = "none" =>
           /\ errors = [k \in 1 .. Len(bad) |-> "DecodeError"]
           /\ pc = "reading"

C23_Witness ==
  /\ pc = "reading"
  /\ ~split
  /\ Len(received) = 3 * PACKET_SIZE
  /\ Len(parsed) = 3
  /\ parsed[1] \notin faulty
  /\ parsed[2] \in faulty
  /\ parsed[3] \notin faulty
  /\ errors = <<"DecodeError">>
  /\ Len(delivered) = 2

\* C24: the step in which a read completes with done ends the loop without
\* an onError or onPacket call, and afterwards there is no pull, no onPacket
\* and no onError call.
C24_EndOfStreamEndsLoop ==
  /\ [][(exitBy = "none" /\ exitBy' = "eos") =>
          /\ errors' = errors
          /\ delivered' = delivered
          /\ received' = received
          /\ pc' = "done"]_vars
  /\ [][exitBy = "eos" =>
          /\ errors' = errors
          /\ delivered' = delivered
          /\ received' = received
          /\ pc' = "done"]_vars

C24_Witness ==
  /\ exitBy = "eos"
  /\ pc = "done"
  /\ buffer # <<>>
  /\ Len(delivered) >= 1
  /\ errors = <<>>
  /\ Len(received) < MaxBytes

\* C25: called with a readable stream and a signal that is already raised,
\* startReadLoop ends without a pull and without an onPacket call; and no
\* step that ends with the signal raised issues a pull: the loop is "reading"
\* with the signal raised only when the read was pending before the step.
C25_SignalCheckedAtTop ==
  /\ [][(pc = "idle" /\ pc' # "idle" /\ readable /\ aborted) =>
          /\ pc' = "done"
          /\ delivered' = delivered
          /\ received' = received]_vars
  /\ [][(aborted' /\ pc' = "reading") =>
          /\ pc = "reading"
          /\ received' = received
          /\ delivered' = delivered]_vars

C25_Witness ==
  /\ exitBy = "aborted"
  /\ pc = "done"
  /\ received = <<>>
  /\ delivered = <<>>
  /\ errors = <<>>
  /\ releases = 1

\* C26: a loop that has stopped, by end-of-stream, by a read error or by
\* cancellation, is not reading, and no later step pulls, calls onPacket or
\* calls onError for it.
C26_StoppedStaysStopped ==
  /\ [](exitBy # "none" => pc = "done")
  /\ [][pc = "done" =>
          /\ pc' = "done"
          /\ received' = received
          /\ parsed' = parsed
          /\ delivered' = delivered
          /\ errors' = errors
          /\ exitBy' = exitBy]_vars

C26_Witness ==
  /\ exitBy = "error"
  /\ readError = "AbortError"
  /\ pc = "done"
  /\ errors = <<>>
  /\ Len(received) < MaxBytes
  /\ Len(delivered) >= 2

\* C27: the reader lock is held exactly while the loop runs; on every exit
\* of a loop that acquired a reader releaseLock has been called once and the
\* stream is unlocked, and the promise is settled only with the stream
\* unlocked.
C27_ReaderReleasedOnce ==
  /\ pc = "reading" => (locked /\ releases = 0 /\ promise = "pending")
  /\ locked => pc = "reading"
  /\ exitBy \in {"eos", "error", "cancel", "aborted"} =>
       (releases = 1 /\ ~locked /\ promise = "resolved")
  /\ promise = "resolved" => ~locked
  /\ releases <= 1

C27_Witness ==
  /\ exitBy = "cancel"
  /\ releases = 1
  /\ ~locked
  /\ promise = "resolved"
  /\ Len(delivered) >= 1

\* C30: called on a port without a readable stream, startReadLoop calls
\* onError once, acquires no reader, registers no abort listener, calls
\* onPacket never, and its promise resolves.
C30_NoReadableStream ==
  /\ [][(pc = "idle" /\ pc' # "idle" /\ ~readable) =>
          /\ errors' = Append(errors, "NoReadableStream")
          /\ exitBy' = "noReadable"
          /\ pc' = "done"]_vars
  /\ [](~readable =>
          /\ ~locked
          /\ releases = 0
          /\ ~listener
          /\ delivered = <<>>
          /\ received = <<>>
          /\ Len(errors) <= 1
          /\ promise \in {"none", "resolved"})

C30_Witness ==
  /\ exitBy = "noReadable"
  /\ ~readable
  /\ hasSignal
  /\ ~aborted
  /\ errors = <<"NoReadableStream">>
  /\ promise = "resolved"

\* C28: a read loop is started on the port only when no loop is reading
\* from it and the stream is unlocked; Connect is offered only then; the
\* stream is never locked twice.
C28_OneLoopPerPort ==
  /\ [][loops' # loops => (pc # "reading" /\ ~locked)]_vars
  /\ []((~connected \/ portState # "opened") => (pc # "reading" /\ ~locked))
  /\ [](releases <= loops)

C28_Witness ==
  /\ loops = 2
  /\ pc = "reading"
  /\ locked
  /\ connected
  /\ closeCalls >= 1
  /\ Len(delivered) >= 2

\* C29: a Disconnect handler that waits for the loop has raised the signal
\* first, and every close(port) call is made with the signal raised, the
\* loop stopped and its promise settled.
C29_DisconnectOrder ==
  /\ [][\A h \in Handlers :
          (dpc[h] # "awaitLoop" /\ dpc'[h] = "awaitLoop") => aborted']_vars
  /\ [][closeCalls' # closeCalls =>
          /\ aborted'
          /\ pc = "done"
          /\ promise = "resolved"
          /\ ~locked]_vars

C29_Witness ==
  /\ closeCalls = 1
  /\ portState = "closed"
  /\ ~connected
  /\ exitBy = "cancel"
  /\ aborted
  /\ Len(delivered) >= 1
  /\ uiError = "none"

====
